---- MODULE Spec2Model ----
(***************************************************************************)
(* RTP tone sender (sw/pipewire_rtp_experiments): the RTPAudioGenerator    *)
(* class of rtp_send.py ("plain") and of rtp_send_sap.py ("sap").          *)
(*                                                                         *)
(* Time is counted in sample periods (1/sample_rate seconds), so that      *)
(* packet_interval = buffer_size / sample_rate seconds is buffer_size      *)
(* units and the 1 ms drift tolerance is sample_rate / 1000 units.         *)
(* The phase accumulator (seconds) is kept as its numerator over           *)
(* sample_rate.  The unbounded Python integer self.timestamp is kept as    *)
(* [hi, lo] with lo a 16-bit limb, its value being hi * 65536 + lo.        *)
(***************************************************************************)
EXTENDS Integers, Naturals, Sequences, FiniteSets, TLC

\* ---------------------------------------------------------------- bounds
MaxPackets == 3      \* packets one instance puts on the wire
MaxTime    == 4      \* clock readings 0..MaxTime
MaxRuns    == 2      \* calls of start_streaming on one instance
MaxSignals == 1      \* SIGINTs delivered to the process

\* ------------------------------------------------------- configurations
Variants    == {"plain", "sap"}
ChannelSet  == {1, 2}
BufferSizes == {1, 2}
SampleRates == {1, 2000}
Ports       == {5004, 5006}
NoDuration  == -1                     \* duration=None
Durations   == {NoDuration, 0, 1, 3}

\* Counter values the framer is exercised from (after that many sends).
SeqStarts == {0, 65534}
TsStarts  == {[hi |-> 0, lo |-> 0], [hi |-> 65535, lo |-> 65533]}

\* ------------------------------------------------------ program constants
Version         == 2
Padding         == 0
Extension       == 0
CsrcCount       == 0
Marker          == 0
Ssrc            == 305419896          \* 0x12345678
BytesPerSample  == 2
ToleranceMillis == 1

VARIABLES
  variant, channels, buffer_size, sample_rate,      \* constructor arguments
  target_port,
  sequence_number, timestamp, phase, sock, running, \* instance fields
  ssrc, frequency, amplitude,
  pc, duration, start_time, packet_count,           \* start_streaming frame
  pending,                                          \* exception in flight
  now, wire, sap_sock, sap_sent, signals,           \* environment
  runs, run_attempts, run_sent, run_errors,         \* observations
  ann_errors, run_announces, releases, run_closes, behind,
  late, last_sent_at, burst, sig_at, wire_at_sig, exited_in, reported, run_signals

vars == <<variant, channels, buffer_size, sample_rate, target_port,
          sequence_number, timestamp, phase, sock, running,
          ssrc, frequency, amplitude,
          pc, duration, start_time, packet_count, pending,
          now, wire, sap_sock, sap_sent, signals,
          runs, run_attempts, run_sent, run_errors,
          ann_errors, run_announces, releases, run_closes, behind,
          late, last_sent_at, burst, sig_at, wire_at_sig, exited_in, reported, run_signals>>

\* the constructor arguments and self.ssrc, which no method assigns
config == <<variant, channels, buffer_size, sample_rate, target_port, ssrc>>

\* the tone settings (amplitude in tenths)
tone == <<frequency, amplitude>>

\* ------------------------------------------------------------ the framer
PayloadType == IF variant = "plain" THEN 96 ELSE 10

\* first_byte = (version << 6) | (padding << 5) | (extension << 4) | cc
FirstByte == Version * 64 + Padding * 32 + Extension * 16 + CsrcCount

\* second_byte = (marker << 7) | payload_type
SecondByte_MarkerOnFirst ==
  (IF sequence_number % 65536 = 0 THEN 1 ELSE Marker) * 128 + PayloadType
SecondByte == Marker * 128 + PayloadType

\* self.sequence_number & 0xFFFF
SeqField_NoMask(n) == n
SeqField(n) == n % 65536

\* self.timestamp & 0xFFFFFFFF
TsField(ts) == [hi |-> ts.hi % 65536, lo |-> ts.lo]

\* ts + n on the [hi, lo] representation
TsAdd(ts, n) == [hi |-> ts.hi + ((ts.lo + n) \div 65536),
                 lo |-> (ts.lo + n) % 65536]

\* struct.pack('!H', h)
PackH(h) == <<h \div 256, h % 256>>

\* struct.pack('!I', hi * 65536 + lo)
PackI(w) == PackH(w.hi) \o PackH(w.lo)

\* self.ssrc as the two halves of an 'I' field
SsrcWord_PerPacket ==
  [hi |-> ssrc \div 65536, lo |-> (ssrc + sequence_number) % 65536]
SsrcWord == [hi |-> ssrc \div 65536, lo |-> ssrc % 65536]

\* struct.pack('!BBHII', ...)
create_rtp_header ==
  <<FirstByte, SecondByte>> \o PackH(SeqField(sequence_number))
     \o PackI(TsField(timestamp)) \o PackI(SsrcWord)

\* ------------------------------------------------------- the synthesizer
\* The sample array after the optional stereo interleave: one entry per
\* 16-bit sample, tagged by its channel (the sine values are not modelled).
Samples_NoInterleave == [i \in 1..buffer_size |-> "M"]
Samples ==
  IF channels = 2
    THEN [i \in 1..(buffer_size * 2) |-> IF i % 2 = 1 THEN "L" ELSE "R"]
    ELSE [i \in 1..buffer_size |-> "M"]

\* astype(np.int16).tobytes(): two bytes per sample
ToBytes(s) == [i \in 1..(Len(s) * BytesPerSample) |->
                 <<s[((i - 1) \div BytesPerSample) + 1], (i - 1) % BytesPerSample>>]

\* phase += samples_per_buffer / sample_rate; if phase > 1.0: phase -= 1.0
NextPhase(p) ==
  LET q == p + buffer_size
  IN  IF q > sample_rate THEN q - sample_rate ELSE q

\* the timestamp advance of one send
TimestampIncrement ==
  IF variant = "plain" THEN buffer_size * channels ELSE buffer_size

NextSequenceNumber(n) == n + 1

\* send_rtp_packet: ok is the outcome of socket.sendto
send_rtp_packet(ok) ==
  LET rtp_packet == create_rtp_header \o ToBytes(Samples)
  IN  /\ phase' = NextPhase(phase)
      /\ run_attempts' = run_attempts + 1
      /\ IF ok
           THEN /\ wire' = Append(wire, rtp_packet)
                /\ run_sent' = run_sent + 1
                /\ sequence_number' = NextSequenceNumber(sequence_number)
                /\ timestamp' = TsAdd(timestamp, TimestampIncrement)
                /\ run_errors' = run_errors
           ELSE /\ run_errors' = run_errors + 1
                /\ UNCHANGED <<wire, run_sent, sequence_number, timestamp>>

\* sendto on the data socket can succeed only while the socket is open
SendOutcomes == IF sock = "open" THEN {TRUE, FALSE} ELSE {FALSE}

\* ---------------------------------------------------------- construction
Fresh ==
  /\ ssrc = Ssrc
  /\ frequency = 440
  /\ amplitude = 3
  /\ phase = 0
  /\ sock = "open"
  /\ running = FALSE
  /\ duration = NoDuration
  /\ start_time = 0 /\ packet_count = 0
  /\ pending = FALSE
  /\ now = 0 /\ wire = <<>> /\ sap_sock = "none" /\ sap_sent = 0
  /\ signals = 0
  /\ runs = 0 /\ run_attempts = 0 /\ run_sent = 0 /\ run_errors = 0
  /\ ann_errors = 0 /\ run_announces = 0 /\ releases = 0 /\ run_closes = 0 /\ behind = FALSE
  /\ late = FALSE /\ last_sent_at = -1 /\ burst = 0 /\ sig_at = "none" /\ wire_at_sig = 0
  /\ exited_in = 0 /\ reported = 0 /\ run_signals = 0

\* the instance after __init__, for the configurations the model draws
Constructed ==
  /\ variant \in Variants
  /\ channels \in ChannelSet
  /\ buffer_size \in BufferSizes
  /\ sample_rate \in SampleRates
  /\ Fresh

Init ==
  /\ Constructed
  /\ target_port = 5004
  /\ sequence_number = 0
  /\ timestamp = [hi |-> 0, lo |-> 0]
  /\ pc = "idle"

\* ------------------------------------------------------- start_streaming
PreTry  == {"announce", "setup"}
InTry   == {"loop", "pace", "sleep", "check"}
PostTry == {"except", "finally", "closing"}
Ended   == {"stopped", "raised"}

\* Where a call of start_streaming goes first: the announcing variant calls
\* send_sap_announcement before anything else, the plain one has no such call.
FirstStep_NoAnnounce == "setup"

FirstStep == IF variant = "sap" THEN "announce" ELSE "setup"

\* a call of start_streaming(duration=d): the banner prints
StartStreaming(d) ==
  /\ pc \in {"idle"} \cup Ended
  /\ runs < MaxRuns
  /\ runs' = runs + 1
  /\ duration' = d
  /\ pc' = FirstStep
  /\ run_attempts' = 0 /\ run_sent' = 0 /\ run_errors' = 0
  /\ ann_errors' = 0 /\ run_announces' = 0 /\ run_closes' = 0
  /\ late' = FALSE /\ last_sent_at' = -1 /\ burst' = 0
  /\ sig_at' = "none" /\ wire_at_sig' = 0 /\ pending' = FALSE
  /\ run_signals' = 0
  /\ sap_sock' = "none" /\ reported' = 0
  /\ UNCHANGED <<config, tone, sequence_number, timestamp, phase, sock, running,
                 start_time, packet_count, now, wire, sap_sent,
                 signals, releases, behind, exited_in>>

\* `except Exception as e: print(...)`: the call returns on every outcome
AfterAnnouncement_Abort(outcome) == IF outcome = "sent" THEN "setup" ELSE "raised"
AfterAnnouncement(outcome) == "setup"

\* the media and rtpmap lines of the session description:
\* m=audio 5004 RTP/AVP 96 and a=rtpmap:96 L16/48000/2
sdp_payload ==
  [media_port |-> 5004, media_pt |-> 96,
   rtpmap_pt |-> 96, encoding |-> "L16", rate |-> 48000, channels |-> 2]

\* send_sap_announcement: the socket is created and the packet sent inside
\* one try block whose handler prints and returns
send_sap_announcement(outcome) ==
  /\ pc = "announce"
  /\ pc' = AfterAnnouncement(outcome)
  /\ run_announces' = run_announces + 1
  /\ CASE outcome = "sent" ->
            /\ sap_sock' = "closed" /\ sap_sent' = sap_sent + 1
            /\ ann_errors' = ann_errors
       [] outcome = "socket_error" ->
            /\ sap_sock' = "none" /\ sap_sent' = sap_sent
            /\ ann_errors' = ann_errors + 1
       [] outcome = "sendto_error" ->
            /\ sap_sock' = "open" /\ sap_sent' = sap_sent
            /\ ann_errors' = ann_errors + 1
  /\ UNCHANGED <<config, tone, sequence_number, timestamp, phase, sock, running,
                 duration, start_time, packet_count, pending, now,
                 wire, signals, runs, run_attempts, run_sent, run_errors,
                 releases, run_closes, behind, late, last_sent_at, burst, sig_at,
                 wire_at_sig, exited_in, reported, run_signals>>

\* self.running = True; packet_interval; start_time = time.time(); count = 0
Setup ==
  /\ pc = "setup"
  /\ running' = TRUE
  /\ start_time' = now
  /\ packet_count' = 0
  /\ pc' = "loop"
  /\ UNCHANGED <<config, tone, sequence_number, timestamp, phase, sock, duration,
                 pending, now, wire, sap_sock, sap_sent, signals,
                 runs, run_attempts, run_sent, run_errors, ann_errors, run_announces,
                 releases, run_closes, behind, late, last_sent_at, burst, sig_at,
                 wire_at_sig, exited_in, reported, run_signals>>

\* if not self.send_rtp_packet(): break
AfterSend_Continue(ok) == "pace"
AfterSend(ok) == IF ok THEN "pace" ELSE "finally"

\* while self.running: if not self.send_rtp_packet(): break; packet_count += 1
SendWithin(cap, outcomes) ==
  /\ pc = "loop"
  /\ IF ~running
       THEN /\ pc' = "finally"
            /\ UNCHANGED <<phase, run_attempts, wire, run_sent,
                           sequence_number, timestamp, run_errors,
                           packet_count, last_sent_at, burst>>
       ELSE \E ok \in outcomes :
              /\ ok => Len(wire) < cap
              /\ send_rtp_packet(ok)
              /\ pc' = AfterSend(ok)
              /\ packet_count' = IF ok THEN packet_count + 1 ELSE packet_count
              /\ last_sent_at' = IF ok THEN now ELSE last_sent_at
              /\ burst' = IF ok /\ late /\ now = last_sent_at
                             THEN burst + 1 ELSE burst
  /\ UNCHANGED <<config, tone, sock, running, late, duration, start_time, 
                 pending, now, sap_sock, sap_sent, signals, runs, ann_errors, run_announces,
                 releases, run_closes, behind, sig_at, wire_at_sig,
                 exited_in, reported, run_signals>>

SendTick == SendWithin(MaxPackets, SendOutcomes)

\* next_packet_time = start_time + packet_count * packet_interval
NextPacketTime_Previous == start_time + (packet_count - 1) * buffer_size
NextPacketTime == start_time + packet_count * buffer_size

\* sleep_time < -0.001 seconds, in sample periods
BehindTolerance(sleep_time) == sleep_time * 1000 < -(ToleranceMillis * sample_rate)

\* sleep_time > 0: time.sleep is entered
MustSleep(sleep_time) == sleep_time > 0

\* sleep_time = next_packet_time - time.time(); sleep, warn, or neither
Pace ==
  /\ pc = "pace"
  /\ LET sleep_time == NextPacketTime - now
     IN  IF MustSleep(sleep_time)
           THEN /\ pc' = "sleep"
                /\ late' = FALSE
                /\ behind' = FALSE
           ELSE /\ pc' = "check"
                /\ behind' = BehindTolerance(sleep_time)
                /\ late' = (sleep_time < 0)
  /\ UNCHANGED <<last_sent_at, burst, config, tone, sequence_number, timestamp,
                 phase, sock, running,
                 duration, start_time, packet_count, pending, now, wire,
                 sap_sock, sap_sent, signals, runs, run_attempts, run_sent,
                 run_errors, ann_errors, run_announces, releases, run_closes, sig_at,
                 wire_at_sig, exited_in, reported, run_signals>>

\* time.sleep(sleep_time) returns once the requested time has passed
SleepReturn ==
  /\ pc = "sleep"
  /\ now >= NextPacketTime
  /\ pc' = "check"
  /\ UNCHANGED <<config, tone, sequence_number, timestamp, phase, sock, running,
                 duration, start_time, packet_count, pending, now,
                 wire, sap_sock, sap_sent, signals, runs, run_attempts,
                 run_sent, run_errors, ann_errors, run_announces, releases, run_closes,
                 behind, late, last_sent_at, burst, sig_at, wire_at_sig, exited_in,
                 reported, run_signals>>

\* `duration and (time.time() - start_time) >= duration`
DurationElapsed ==
  duration # NoDuration /\ duration # 0 /\ (now - start_time) >= duration

DurationCheck ==
  /\ pc = "check"
  /\ pc' = IF DurationElapsed THEN "finally" ELSE "loop"
  /\ UNCHANGED <<config, tone, sequence_number, timestamp, phase, sock, running,
                 duration, start_time, packet_count, pending, now,
                 wire, sap_sock, sap_sent, signals, runs, run_attempts,
                 run_sent, run_errors, ann_errors, run_announces, releases, run_closes,
                 behind, late, last_sent_at, burst, sig_at, wire_at_sig, exited_in,
                 reported, run_signals>>

\* the locals of start_streaming once the call has ended
FrameAfter(at) ==
  IF at \in Ended
    THEN [duration |-> NoDuration, start_time |-> 0, packet_count |-> 0]
    ELSE [duration |-> duration, start_time |-> start_time,
          packet_count |-> packet_count]

InterruptTarget_SleepUninterruptible(at) ==
  IF at = "sleep" THEN "sleep"
  ELSE IF at \in InTry THEN "except"
  ELSE IF at = "except" THEN "finally"
  ELSE "raised"

\* where a KeyboardInterrupt raised at pc takes the call
InterruptTarget(at) ==
  IF at \in InTry THEN "except"
  ELSE IF at = "except" THEN "finally"
  ELSE "raised"

\* Where inside send_rtp_packet a KeyboardInterrupt can be raised: before
\* sendto has put the packet on the wire, after sendto has returned and
\* before `self.sequence_number += 1`, or between that statement and
\* `self.timestamp += ...`.  The last two need a sendto that succeeds.
Landings ==
  IF pc = "loop" /\ running /\ sock = "open" /\ Len(wire) < MaxPackets
    THEN {"before", "sent", "sequenced"}
    ELSE {"before"}

\* SIGINT: KeyboardInterrupt is raised at the current point of the call.
\* Inside the try block (also inside send_rtp_packet and time.sleep, whose
\* handlers catch Exception only) it reaches `except KeyboardInterrupt`;
\* before the try block and inside the finally block it leaves the call.
\* Raised inside send_rtp_packet it skips the statements that were still to
\* run there.
Interrupt ==
  /\ pc \in PreTry \cup InTry \cup PostTry
  /\ signals < MaxSignals
  /\ signals' = signals + 1
  /\ pc' = InterruptTarget(pc)
  /\ pending' = IF pc = "except" THEN TRUE ELSE pending
  /\ run_signals' = run_signals + 1
  /\ \E landing \in Landings :
       IF landing = "before"
         THEN UNCHANGED <<wire, phase, run_attempts, run_sent,
                          sequence_number, last_sent_at>>
         ELSE /\ wire' = Append(wire, create_rtp_header \o ToBytes(Samples))
              /\ phase' = NextPhase(phase)
              /\ run_attempts' = run_attempts + 1
              /\ run_sent' = run_sent + 1
              /\ last_sent_at' = now
              /\ sequence_number' =
                   IF landing = "sequenced"
                     THEN NextSequenceNumber(sequence_number)
                     ELSE sequence_number
  /\ sig_at' = IF pc \in InTry THEN pc ELSE sig_at
  /\ wire_at_sig' = IF pc \in InTry THEN Len(wire') ELSE wire_at_sig
  /\ duration' = FrameAfter(InterruptTarget(pc)).duration
  /\ start_time' = FrameAfter(InterruptTarget(pc)).start_time
  /\ packet_count' = FrameAfter(InterruptTarget(pc)).packet_count
  /\ behind' = IF InterruptTarget(pc) \in Ended THEN FALSE ELSE behind
  /\ UNCHANGED <<config, tone, timestamp, sock, running,
                 now, sap_sock, sap_sent, runs,
                 run_errors, ann_errors, run_announces, releases, run_closes, late, burst,
                 reported, exited_in>>

\* except KeyboardInterrupt: print
ExceptHandler ==
  /\ pc = "except"
  /\ pc' = "finally"
  /\ UNCHANGED <<config, tone, sequence_number, timestamp, phase, sock, running,
                 duration, start_time, packet_count, pending, now,
                 wire, sap_sock, sap_sent, signals, runs, run_attempts,
                 run_sent, run_errors, ann_errors, run_announces, releases, run_closes,
                 behind, late, last_sent_at, burst, sig_at, wire_at_sig, exited_in,
                 reported, run_signals>>

\* finally: self.running = False
FinallyStop ==
  /\ pc = "finally"
  /\ running' = FALSE
  /\ exited_in' = IF exited_in = 0 THEN runs ELSE exited_in
  /\ pc' = "closing"
  /\ UNCHANGED <<config, tone, sequence_number, timestamp, phase, sock, duration,
                 start_time, packet_count, pending, now, wire,
                 sap_sock, sap_sent, signals, runs, run_attempts, run_sent,
                 run_errors, ann_errors, run_announces, releases, run_closes, behind,
                 late, last_sent_at, burst, sig_at, wire_at_sig, reported, run_signals>>

\* finally: self.socket.close(); print(f"Sent {packet_count} RTP packets")
FinallyClose ==
  /\ pc = "closing"
  /\ sock' = "closed"
  /\ releases' = IF sock = "open" THEN releases + 1 ELSE releases
  /\ run_closes' = run_closes + 1
  /\ reported' = packet_count
  /\ pc' = IF pending THEN "raised" ELSE "stopped"
  /\ duration' = FrameAfter("stopped").duration
  /\ start_time' = FrameAfter("stopped").start_time
  /\ packet_count' = FrameAfter("stopped").packet_count
  /\ behind' = FALSE
  /\ UNCHANGED <<config, tone, sequence_number, timestamp, phase, running, pending,
                 now, wire, sap_sock, sap_sent, signals, runs, run_attempts,
                 run_sent, run_errors, ann_errors, run_announces, late, last_sent_at, burst, sig_at,
                 wire_at_sig, exited_in, run_signals>>

\* The clock advances while a tick synthesizes and sends its packet and
\* while it sleeps; the statements between the clock reads take no time.
Tick ==
  /\ pc \in {"loop", "sleep"}
  /\ now < MaxTime
  /\ now' = now + 1
  /\ UNCHANGED <<config, tone, sequence_number, timestamp, phase, sock, running,
                 pc, duration, start_time, packet_count, pending,
                 wire, sap_sock, sap_sent, signals, runs, run_attempts,
                 run_sent, run_errors, ann_errors, run_announces, releases, run_closes,
                 behind, late, last_sent_at, burst, sig_at, wire_at_sig, exited_in,
                 reported, run_signals>>

Next ==
  \/ \E d \in Durations : StartStreaming(d)
  \/ \E o \in {"sent", "socket_error", "sendto_error"} : send_sap_announcement(o)
  \/ Setup
  \/ SendTick
  \/ Pace
  \/ SleepReturn
  \/ DurationCheck
  \/ Interrupt
  \/ ExceptHandler
  \/ FinallyStop
  \/ FinallyClose
  \/ Tick

Spec == Init /\ [][Next]_vars

\* ------------------------------------------- the framer on its own
\* send_rtp_packet applied repeatedly from counter values drawn from
\* SeqStarts and TsStarts, on an open socket.
FramerInit ==
  /\ Constructed
  /\ target_port = 5004
  /\ sequence_number \in SeqStarts
  /\ timestamp \in TsStarts
  /\ pc = "framer"

FramerSend ==
  /\ pc = "framer"
  /\ \E ok \in SendOutcomes :
       /\ run_attempts < MaxPackets + 1
       /\ ok => Len(wire) < MaxPackets
       /\ send_rtp_packet(ok)
  /\ UNCHANGED <<config, tone, sock, running, pc, duration, start_time,
                 packet_count, pending, now, sap_sock, sap_sent,
                 signals, runs, ann_errors, run_announces, releases, run_closes, behind,
                 late, last_sent_at, burst, sig_at, wire_at_sig, exited_in, reported, run_signals>>

\* set_frequency(freq)
set_frequency(freq) ==
  /\ pc = "framer"
  /\ frequency' = freq
  /\ UNCHANGED <<config, amplitude, sequence_number, timestamp, phase, sock,
                 running, pc, duration, start_time, packet_count, pending,
                 now, wire, sap_sock, sap_sent, signals, runs, run_attempts,
                 run_sent, run_errors, ann_errors, run_announces, releases, run_closes,
                 behind, late, last_sent_at, burst, sig_at, wire_at_sig,
                 exited_in, reported, run_signals>>

\* set_amplitude(amp): self.amplitude = max(0.0, min(1.0, amp))
Clamp(amp) ==
  LET upper == IF amp < 10 THEN amp ELSE 10
  IN  IF upper > 0 THEN upper ELSE 0

set_amplitude(amp) ==
  /\ pc = "framer"
  /\ amplitude' = Clamp(amp)
  /\ UNCHANGED <<config, frequency, sequence_number, timestamp, phase, sock,
                 running, pc, duration, start_time, packet_count, pending,
                 now, wire, sap_sock, sap_sent, signals, runs, run_attempts,
                 run_sent, run_errors, ann_errors, run_announces, releases, run_closes,
                 behind, late, last_sent_at, burst, sig_at, wire_at_sig,
                 exited_in, reported, run_signals>>

FramerNext ==
  \/ FramerSend
  \/ \E freq \in {0, 440, 880} : set_frequency(freq)
  \/ \E amp \in {-5, 3, 15} : set_amplitude(amp)

FramerSpec == FramerInit /\ [][FramerNext]_vars

\* ------------------------------------- the announcement on its own
\* The announcing variant from construction up to the start of the loop,
\* for target ports drawn from Ports.
AnnounceInit ==
  /\ Constructed
  /\ variant = "sap"
  /\ target_port \in Ports
  /\ sequence_number = 0
  /\ timestamp = [hi |-> 0, lo |-> 0]
  /\ pc = "idle"

AnnounceNext ==
  \/ \E d \in Durations : StartStreaming(d)
  \/ \E o \in {"sent", "socket_error", "sendto_error"} : send_sap_announcement(o)
  \/ Setup
  \/ Interrupt /\ pc \in PreTry

AnnounceSpec == AnnounceInit /\ [][AnnounceNext]_vars

\* ------------------------------------------- the loop without jitter
\* One run of start_streaming(duration=d) in which sendto succeeds while the
\* socket is open, a send takes no time and time.sleep returns exactly at
\* the deadline it was given.  Durations are in sample periods: 480 is
\* 0.01 s at 48000 Hz.
MaxSteadyPackets == 10

SteadyBlocks ==
  {[size |-> 64, rate |-> 48000], [size |-> 1, rate |-> 2000],
   [size |-> 2, rate |-> 2000]}

SteadyDurations == {0, 1, 3, 7, 480}

SteadyInit ==
  /\ variant \in Variants
  /\ channels \in ChannelSet
  /\ \E b \in SteadyBlocks : buffer_size = b.size /\ sample_rate = b.rate
  /\ Fresh
  /\ target_port = 5004
  /\ sequence_number = 0
  /\ timestamp = [hi |-> 0, lo |-> 0]
  /\ pc = "idle"

SteadySend ==
  SendWithin(MaxSteadyPackets, IF sock = "open" THEN {TRUE} ELSE {FALSE})

\* time.sleep(sleep_time) returns when exactly sleep_time has passed
SteadySleep ==
  /\ pc = "sleep"
  /\ now' = NextPacketTime
  /\ pc' = "check"
  /\ UNCHANGED <<config, tone, sequence_number, timestamp, phase, sock, running,
                 duration, start_time, packet_count, pending,
                 wire, sap_sock, sap_sent, signals, runs, run_attempts,
                 run_sent, run_errors, ann_errors, run_announces, releases, run_closes,
                 behind, late, last_sent_at, burst, sig_at, wire_at_sig, exited_in,
                 reported, run_signals>>

SteadyNext ==
  \/ \E d \in SteadyDurations : runs = 0 /\ StartStreaming(d)
  \/ \E o \in {"sent", "socket_error", "sendto_error"} : send_sap_announcement(o)
  \/ Setup
  \/ SteadySend
  \/ Pace
  \/ SteadySleep
  \/ DurationCheck
  \/ FinallyStop
  \/ FinallyClose

SteadySpec == SteadyInit /\ [][SteadyNext]_vars

\* ------------------------------------------------------------ properties
\* fields of a packet on the wire (bytes are numbered from 0 in the claims)
SeqOf(pkt) == pkt[3] * 256 + pkt[4]
TsOf(pkt)  == [hi |-> pkt[5] * 256 + pkt[6], lo |-> pkt[7] * 256 + pkt[8]]
Pairs      == 1..(Len(wire) - 1)

\* C1: the sequence number in bytes 2-3 of each packet is the one of the
\* packet sent before it plus 1, modulo 65536 (65535 is followed by 0).
C1_SequenceStep ==
  \A i \in Pairs : SeqOf(wire[i + 1]) = (SeqOf(wire[i]) + 1) % 65536

C1_Witness ==
  \E i \in Pairs : SeqOf(wire[i]) = 65535 /\ SeqOf(wire[i + 1]) = 0

\* C2: in both variants and for 1 and 2 channels the timestamp in bytes 4-7
\* of each packet is the one of the packet before it plus buffer_size,
\* modulo 2^32.
C2_TimestampStep ==
  \A i \in Pairs :
    TsOf(wire[i + 1]) = TsField(TsAdd(TsOf(wire[i]), buffer_size))

\* C3: once a transmit attempt of the run has failed, the loop has been left:
\* that attempt was the last one, every earlier attempt put a packet on the
\* wire, the packet counter equals their number, and one error was reported.
C3_FailureHaltsLoop ==
  /\ run_errors = run_attempts - run_sent
  /\ run_attempts > run_sent =>
       /\ pc \in {"finally", "closing"} \cup Ended
       /\ run_attempts = run_sent + 1
       /\ run_errors = 1
       /\ pc \in {"finally", "closing"} => packet_count = run_sent
       /\ pc \in {"closing", "stopped"} => ~running
       /\ pc = "stopped" => reported = run_sent

C3_Witness ==
  pc = "stopped" /\ run_sent = 3 /\ run_attempts = 4 /\ run_errors = 1

\* C4: whenever a call of start_streaming has ended, by whichever exit, the
\* data socket is closed and has been released exactly once.
C4_SocketReleasedOnce ==
  pc \in Ended => sock = "closed" /\ releases = 1

\* C5: once the pacing loop of the instance has exited, running is never
\* True again and no later call puts a packet on the wire.
C5_StoppedIsTerminal ==
  exited_in > 0 => ~running /\ (runs > exited_in => run_sent = 0)

\* C6: the loop never sends packets back-to-back to catch up: no packet is
\* sent at the same clock reading as the packet before it after a tick that
\* ended behind its deadline and skipped the wait.
C6_NoBurst == burst = 0

\* C7: with a duration bound d >= 0, a tick that ends with elapsed time >= d
\* is the last one: the loop does not go on to another tick.
C7_StopsWhenElapsed ==
  [][(pc = "check" /\ duration # NoDuration /\ now - start_time >= duration)
       => pc' # "loop"]_vars

\* C8: a failed announcement is reported once and does not end the run: the
\* call goes on to Streaming, and unless a stop signal arrives it ends only
\* after a data packet was handed to the data socket.
C8_AnnouncementFailureNotFatal ==
  ann_errors > 0 =>
    /\ ann_errors = 1
    /\ run_signals = 0 =>
         /\ pc \in {"setup"} \cup InTry \cup {"finally", "closing", "stopped"}
         /\ pc \in InTry => running
         /\ pc \in {"finally", "closing", "stopped"} => run_attempts >= 1
         /\ pc = "pace" => run_sent >= 1

C8_Witness ==
  ann_errors = 1 /\ runs = 1 /\ run_sent >= 1 /\ running

\* C9: after a stop signal delivered inside the loop, also during the
\* deadline wait, the loop has been left and no packet is put on the wire.
C9_StopSignalEndsSending ==
  sig_at \in InTry =>
    /\ pc \in PostTry \cup Ended
    /\ Len(wire) = wire_at_sig

C9_Witness ==
  /\ sig_at = "sleep" /\ pc = "except"
  /\ run_sent >= 1 /\ now < NextPacketTime

\* C10: every packet on the wire is 12 + buffer_size * channels * 2 bytes
\* long.
C10_PacketLength ==
  \A i \in 1..Len(wire) : Len(wire[i]) = 12 + buffer_size * channels * 2

C10_Witness ==
  /\ \E i \in 1..Len(wire) : Len(wire[i]) = 20
  /\ channels = 2 /\ buffer_size = 2

\* debug_rtp_header: struct.unpack('!BBHII') and the bit fields
debug_rtp_header(header) ==
  [version   |-> (header[1] \div 64) % 4,
   padding   |-> (header[1] \div 32) % 2,
   extension |-> (header[1] \div 16) % 2,
   cc        |-> header[1] % 16,
   marker    |-> (header[2] \div 128) % 2,
   pt        |-> header[2] % 128,
   seq       |-> header[3] * 256 + header[4],
   ts        |-> [hi |-> header[5] * 256 + header[6],
                  lo |-> header[7] * 256 + header[8]],
   ssrc      |-> [hi |-> header[9] * 256 + header[10],
                  lo |-> header[11] * 256 + header[12]]]

HeaderOf(pkt) == SubSeq(pkt, 1, 12)

\* C11: bytes 8-11 carry the same synchronization-source identifier, the
\* one set at construction, in every packet, whatever sends, failed sends,
\* set_frequency and set_amplitude calls came between.
C11_SsrcConstant ==
  /\ ssrc = Ssrc
  /\ \A i \in 1..Len(wire) :
       /\ debug_rtp_header(HeaderOf(wire[i])).ssrc
            = debug_rtp_header(HeaderOf(wire[1])).ssrc
       /\ debug_rtp_header(HeaderOf(wire[i])).ssrc
            = [hi |-> Ssrc \div 65536, lo |-> Ssrc % 65536]

C11_Witness ==
  /\ Len(wire) >= 3 /\ run_errors >= 1
  /\ frequency = 880 /\ amplitude = 10

\* C12: byte 0 of every packet is 0x80 (version 2, no padding, extension or
\* CSRC), byte 1 is marker 0 with the stream's payload type, and decoding
\* the header gives these fields; the header of the latest packet carries
\* the sequence number and timestamp the session had, modulo 2^16 and 2^32.
C12_HeaderFields ==
  /\ \A i \in 1..Len(wire) :
       LET h == debug_rtp_header(HeaderOf(wire[i]))
       IN  /\ wire[i][1] = 128
           /\ h.version = 2 /\ h.padding = 0 /\ h.extension = 0 /\ h.cc = 0
           /\ h.marker = 0
           /\ h.pt = PayloadType /\ h.pt = wire[1][2]
  /\ Len(wire) > 0 =>
       LET h == debug_rtp_header(HeaderOf(wire[Len(wire)]))
       IN  /\ (h.seq + 1) % 65536 = sequence_number % 65536
           /\ TsField(TsAdd(h.ts, TimestampIncrement)) = TsField(timestamp)

C12_Witness ==
  /\ Len(wire) >= 2 /\ variant = "sap"
  /\ debug_rtp_header(HeaderOf(wire[Len(wire)])).seq = 65535
  /\ debug_rtp_header(HeaderOf(wire[Len(wire)])).ts.hi = 65535
  /\ sequence_number = 65536

\* C13: for every buffer size and sample rate the phase accumulator does
\* not exceed 1.0 (sample_rate, in units of 1/sample_rate) after the
\* wraparound correction.
C13_PhaseBounded == phase <= sample_rate

\* C19: after every call of generate_audio_buffer the phase accumulator
\* lies in [0, 1): it is never exactly 1.0.
C19_PhaseHalfOpen == 0 <= phase /\ phase < sample_rate

\* C15: the wait after the n-th send ends no earlier than start_time +
\* n * packet_interval, so the loop is ready for packet number n (0-based)
\* only from that time on, and each packet was sent at or after its own
\* deadline.
C15_AnchoredDeadlines ==
  /\ pc \in {"check", "loop"} =>
       now >= start_time + packet_count * buffer_size
  /\ pc = "pace" =>
       last_sent_at >= start_time + (packet_count - 1) * buffer_size

C15_Witness ==
  /\ pc = "pace" /\ packet_count = 3 /\ burst >= 1
  /\ last_sent_at = start_time + 2 * buffer_size

\* C16: once send_sap_announcement has returned, the announcement socket it
\* opened is closed, whether sendto succeeded or raised.
C16_AnnouncementSocketClosed ==
  pc # "announce" => sap_sock # "open"

\* C17: an announcement that was sent describes the stream: its payload
\* type (media line and rtpmap) is the one of the RTP headers, and its port,
\* sample rate and channel count are the configured ones.
C17_AnnouncementMatchesStream ==
  sap_sent > 0 =>
    /\ sdp_payload.media_pt = PayloadType
    /\ sdp_payload.rtpmap_pt = PayloadType
    /\ sdp_payload.media_port = target_port
    /\ sdp_payload.rate = sample_rate
    /\ sdp_payload.channels = channels


C20_CountersMatchSends ==
  /\ sequence_number = Len(wire)
  /\ timestamp = [hi |-> 0, lo |-> Len(wire) * TimestampIncrement]
  /\ \A i \in 1..Len(wire) : SeqOf(wire[i]) = i - 1

\* C14: in a run without jitter and with a duration bound d, the number of
\* packets transmitted never exceeds d/I + 1 and is at least d/I - 1 once
\* the loop has been left (I = buffer_size sample periods); for d = 480
\* sample periods and blocks of 64 it is between 6 and 9.
C14_CountWithinOne ==
  duration # NoDuration /\ pc \in InTry \cup {"finally", "closing"} =>
    /\ packet_count * buffer_size <= duration + buffer_size
    /\ pc \in {"finally", "closing"} =>
         /\ packet_count * buffer_size >= duration - buffer_size
         /\ buffer_size = 64 /\ duration = 480 => packet_count \in 6..9

====
